---- MODULE Spec2Model ----
(***************************************************************************)
(* Model of my-chatapp/api/chat.py: the rate_limit decorator around the    *)
(* POST /api/chat handler handle_chat, and the classification of upstream  *)
(* failures into HTTP responses.                                           *)
(*                                                                         *)
(* Time is counted in whole seconds.  Strings of the request body are      *)
(* sequences of characters; the fixed texts of the responses are named by  *)
(* short English tags (the source's texts are Chinese literals).           *)
(***************************************************************************)
EXTENDS Integers, Sequences, FiniteSets, TLC

VARIABLES
    now,                 \* the wall clock read by time.time() (line 28)
    request_timestamps,  \* the module-level dict, ip -> list of timestamps (line 21)
    client,              \* TRUE iff init_deepseek_client() returned a handle (line 68)
    debug,               \* app.debug (line 146)
    timeout_is_exc,      \* what the imported name Timeout is bound to (line 5)
    resp,                \* the response of the latest request, with its input
    admitted,            \* history: per ip, the admitted timestamps not older than the window
    last_admit,          \* history: per ip, the latest admitted timestamp, -1 if none
    rejected,            \* history: per ip, TRUE once a request got 429
    pc, t_ip, t_now, t_new  \* per worker thread: position in rate_limit and its locals

vars == <<now, request_timestamps, client, debug, timeout_is_exc, resp,
          admitted, last_admit, rejected, pc, t_ip, t_now, t_new>>

(***************************************************************************)
(* Program constants and the bounds of the model.                          *)
(***************************************************************************)
RATE_LIMIT == 10
RATE_LIMIT_WINDOW == 60

MaxClock == 61           \* the clock stops advancing beyond this value
MaxLog == 11             \* threads start no request once a client's history holds this many

Clients == {"a", "b"}
ChatClients == {"a"}
Threads == {1, 2}

\* The clock advances by exactly the window or by one second more.
TickSteps == {RATE_LIMIT_WINDOW, RATE_LIMIT_WINDOW + 1}

(***************************************************************************)
(* Python values of a parsed JSON body.                                    *)
(***************************************************************************)
PyNone == [t |-> "null"]
PyBool(b) == [t |-> "bool", b |-> b]
PyNum(n) == [t |-> "num", n |-> n]
PyStr(s) == [t |-> "str", s |-> s]
PyList(n) == [t |-> "list", len |-> n]
\* a dict: its keys, and the value under "message" (read only when the key is there)
PyDict(keys, m) == [t |-> "dict", keys |-> keys, message |-> m]

Hello == <<"h", "i">>
Blank == <<" ", " ", " ">>
Padded == <<" ", "h", " ">>

\* bool(v) as Python computes it
Truthy(v) ==
    CASE v.t = "null" -> FALSE
      [] v.t = "bool" -> v.b
      [] v.t = "num" -> v.n # 0
      [] v.t = "str" -> Len(v.s) > 0
      [] v.t = "list" -> v.len > 0
      [] v.t = "dict" -> v.keys # {}

\* str.strip(): drop the leading and the trailing blanks
RECURSIVE LStrip(_)
LStrip(s) == IF s # <<>> /\ Head(s) = " " THEN LStrip(Tail(s)) ELSE s

RECURSIVE RStrip(_)
RStrip(s) ==
    IF s # <<>> /\ s[Len(s)] = " " THEN RStrip(SubSeq(s, 1, Len(s) - 1)) ELSE s

Strip(s) == RStrip(LStrip(s))

(***************************************************************************)
(* Exceptions.  An exception is its class and the text str(e) gives.       *)
(* The classes raised by the upstream call come from the openai package    *)
(* imported at line 5: a timeout is raised as APITimeoutError, which is a  *)
(* subclass of APIConnectionError; every openai error is an APIError.      *)
(* The name Timeout of line 5 is, in the openai releases that export       *)
(* OpenAI, the timeout configuration type and no exception class; line 116 *)
(* reads it as an exception class.  timeout_is_exc covers both bindings.   *)
(***************************************************************************)
Exc(cls, text) == [cls |-> cls, text |-> text]

\* the direct base class of an exception class
Base(cls) ==
    CASE cls = "AuthenticationError" -> "APIStatusError"
      [] cls = "RateLimitError" -> "APIStatusError"
      [] cls = "APIStatusError" -> "APIError"
      [] cls = "APITimeoutError" -> "APIConnectionError"
      [] cls = "APIConnectionError" -> "APIError"
      [] cls = "APIError" -> "OpenAIError"
      [] cls = "BadRequest" -> "HTTPException"
      [] cls = "UnsupportedMediaType" -> "HTTPException"
      [] OTHER -> "Exception"

\* issubclass(cls, of)
RECURSIVE IsSubclass(_, _)
IsSubclass(cls, of) ==
    \/ cls = of
    \/ cls # "Exception" /\ IsSubclass(Base(cls), of)

\* the except clauses of the inner try statement, in source order
ExceptClauses == <<"AuthenticationError", "APIConnectionError", "Timeout", "APIError">>

\* whether a name in an except clause is bound to an exception class
IsExceptionClass(name, tie) == name # "Timeout" \/ tie

\* Python tries the clauses in order and takes the first whose class the
\* exception is an instance of; a clause naming something that is no
\* exception class raises TypeError at the moment it is tried.  The result is
\* the index of the clause taken, 0 when none matches, -1 for the TypeError.
RECURSIVE MatchFrom(_, _, _)
MatchFrom(e, i, tie) ==
    IF i > Len(ExceptClauses) THEN 0
    ELSE IF ~IsExceptionClass(ExceptClauses[i], tie) THEN -1
    ELSE IF IsSubclass(e.cls, ExceptClauses[i]) THEN i
    ELSE MatchFrom(e, i + 1, tie)

Match(e, tie) == MatchFrom(e, 1, tie)

CatchTypeError == Exc("TypeError", "catching classes that do not inherit from BaseException is not allowed")

(***************************************************************************)
(* Responses: the status code, the JSON body's members, and whether the    *)
(* upstream completion call was made while producing it.                   *)
(***************************************************************************)
Response(status, error, message, details, reply, called) ==
    [status |-> status, error |-> error, message |-> message,
     details |-> details, reply |-> reply, upstream_called |-> called]

Body(r) == [error |-> r.error, message |-> r.message, details |-> r.details, reply |-> r.reply]

RateLimited == Response(429, "rate-limit-exceeded", <<"max-requests-per-window">>, <<>>, <<>>, FALSE)

ServiceNotReady == Response(500, "service-not-ready", <<"client-init-failed">>, <<>>, <<>>, FALSE)

NoJsonData == Response(400, "no-json-data", <<>>, <<>>, <<>>, FALSE)

InvalidMessage == Response(400, "invalid-message", <<>>, <<>>, <<>>, FALSE)

\* the top-level except Exception of handle_chat
InternalError(e, dbg, called) ==
    Response(500, "internal-error", <<>>,
             IF dbg THEN <<e.text>> ELSE <<"see-server-logs">>, <<>>, called)

\* the except clauses after the upstream call, by the index of the clause taken
UpstreamFailure(e, dbg, tie) ==
    LET i == Match(e, tie) IN
    CASE i = 1 -> Response(401, "auth-failed", <<"api-key-invalid">>, <<>>, <<>>, TRUE)
      [] i = 2 -> Response(503, "connection-failed", <<"cannot-connect">>, <<>>, <<>>, TRUE)
      [] i = 3 -> Response(504, "timeout", <<"upstream-timed-out">>, <<>>, <<>>, TRUE)
      [] i = 4 -> Response(500, "upstream-error", <<"processing-error: ", e.text>>, <<>>, <<>>, TRUE)
      [] i = 0 -> InternalError(e, dbg, TRUE)
      [] i = -1 -> InternalError(CatchTypeError, dbg, TRUE)

(***************************************************************************)
(* The upstream completion call: what client.chat.completions.create does  *)
(* in one request, chosen by the environment.                              *)
(***************************************************************************)
Upstreams == {"ok", "auth", "conn", "timeout", "api", "other"}
Details == {"m1", "m2"}

UpstreamExc(up, text) ==
    CASE up = "auth" -> Exc("AuthenticationError", text)
      [] up = "conn" -> Exc("APIConnectionError", text)
      [] up = "timeout" -> Exc("APITimeoutError", text)
      [] up = "api" -> Exc("RateLimitError", text)
      [] up = "other" -> Exc("ValueError", text)

CallUpstream(up, text, dbg, tie) ==
    IF up = "ok"
    THEN Response(200, "", <<>>, <<>>, <<"reply-text">>, TRUE)
    ELSE UpstreamFailure(UpstreamExc(up, text), dbg, tie)

(***************************************************************************)
(* request.get_json(): the raw body is malformed JSON (BadRequest is       *)
(* raised), carries no JSON content (None, or UnsupportedMediaType raised, *)
(* by the Flask release), or parses to a value.                            *)
(***************************************************************************)
Raw(kind, value) == [kind |-> kind, value |-> value]

Returned(v) == [raised |-> FALSE, value |-> v, exc |-> Exc("", "")]
Raised(e) == [raised |-> TRUE, value |-> PyNone, exc |-> e]

get_json(raw) ==
    CASE raw.kind = "malformed" -> {Raised(Exc("BadRequest", "400 Bad Request"))}
      [] raw.kind = "missing" ->
            {Returned(PyNone), Raised(Exc("UnsupportedMediaType", "415 Unsupported Media Type"))}
      [] raw.kind = "json" -> {Returned(raw.value)}

\* line 87: not user_message or not isinstance(user_message, str)
\*          or len(user_message.strip()) == 0
MessageInvalid(m) == ~Truthy(m) \/ m.t # "str" \/ Len(Strip(m.s)) = 0

\* data.get('message') of a dict
DictGet(data) == IF "message" \in data.keys THEN data.message ELSE PyNone

\* a handler that does not look at the client handle before going on
handle_chat_unchecked(req, gj, cl, dbg, tie) ==
    IF gj.raised THEN InternalError(gj.exc, dbg, FALSE)
    ELSE IF ~Truthy(gj.value) THEN NoJsonData
    ELSE IF gj.value.t # "dict"
         THEN InternalError(Exc("AttributeError", "object has no attribute 'get'"), dbg, FALSE)
    ELSE IF MessageInvalid(DictGet(gj.value)) THEN InvalidMessage
    ELSE CallUpstream(req.upstream, req.detail, dbg, tie)

(***************************************************************************)
(* handle_chat, lines 72-147, on a request req = [raw, upstream, detail]   *)
(* for which get_json ended as gj.                                         *)
(***************************************************************************)
handle_chat(req, gj, cl, dbg, tie) ==
    IF ~cl THEN ServiceNotReady
    ELSE IF gj.raised THEN InternalError(gj.exc, dbg, FALSE)
    ELSE IF ~Truthy(gj.value) THEN NoJsonData
    ELSE IF gj.value.t # "dict"
         THEN InternalError(Exc("AttributeError", "object has no attribute 'get'"), dbg, FALSE)
    ELSE IF MessageInvalid(DictGet(gj.value)) THEN InvalidMessage
    ELSE CallUpstream(req.upstream, req.detail, dbg, tie)

(***************************************************************************)
(* The requests the environment sends.                                     *)
(***************************************************************************)
MessageValues ==
    {PyNone, PyBool(TRUE), PyNum(5), PyList(1),
     PyStr(<<>>), PyStr(Blank), PyStr(Hello), PyStr(Padded)}

JsonValues ==
    {PyNone, PyBool(FALSE), PyBool(TRUE), PyNum(0), PyNum(7), PyStr(<<>>), PyStr(Hello),
     PyList(0), PyList(1), PyDict({}, PyNone), PyDict({"other"}, PyNone)}
    \cup {PyDict({"message"}, m) : m \in MessageValues}

RawBodies ==
    {Raw("malformed", PyNone), Raw("missing", PyNone)} \cup {Raw("json", v) : v \in JsonValues}

Request(raw, up, text) == [raw |-> raw, upstream |-> up, detail |-> text]

HelloBody == Raw("json", PyDict({"message"}, PyStr(Hello)))

\* every body with a healthy upstream, and the valid body with every upstream outcome
ChatRequests ==
    {Request(b, "ok", "m1") : b \in RawBodies}
    \cup {Request(HelloBody, u, d) : u \in Upstreams, d \in Details}

\* the requests of the two-client runs: a valid one and an invalid one
LimiterRequests == {Request(HelloBody, "ok", "m1"), Request(Raw("json", PyDict({}, PyNone)), "ok", "m1")}

(***************************************************************************)
(* rate_limit, lines 23-45.                                                *)
(***************************************************************************)
\* a decorator that keeps one list for all addresses
KeyShared(ip) == "a"

\* line 27: the key of the dict is the requester's address
Key(ip) == ip

\* lines 31-32: a key not yet in the dict gets the empty list
Ensure(d, k) == IF k \in DOMAIN d THEN d ELSE (k :> <<>>) @@ d

\* a comprehension that keeps a timestamp exactly one window old
KeepInclusive(t, at) == at - t <= RATE_LIMIT_WINDOW

\* line 33: the condition of the comprehension
Keep(t, at) == at - t < RATE_LIMIT_WINDOW

\* a decorator that never discards a timestamp
FreshNoPrune(ts, at) == ts

\* line 33: [t for t in request_timestamps[client_ip] if now - t < RATE_LIMIT_WINDOW]
RECURSIVE Fresh(_, _)
Fresh(ts, at) ==
    IF ts = <<>> THEN <<>>
    ELSE IF Keep(Head(ts), at) THEN <<Head(ts)>> \o Fresh(Tail(ts), at)
    ELSE Fresh(Tail(ts), at)

\* a limit check that is off by one
LimitReachedLate(ts) == Len(ts) > RATE_LIMIT

\* line 36
LimitReached(ts) == Len(ts) >= RATE_LIMIT

Store(d, k, ts) == [d EXCEPT ![k] = ts]

(***************************************************************************)
(* The record of the latest request: who sent it, when, what it was,       *)
(* whether the wrapped handler ran, and the response.                      *)
(***************************************************************************)
Served(ip, at, req, ran, r) == [ip |-> ip, at |-> at, req |-> req, handler_run |-> ran, r |-> r]

NoRequest == Served("none", 0, Request(Raw("missing", PyNone), "ok", "m1"), FALSE,
                    Response(0, "", <<>>, <<>>, <<>>, FALSE))

\* the history of admitted timestamps keeps those at most one window old
Recent(ts, at) == SelectSeq(ts, LAMBDA t : at - t <= RATE_LIMIT_WINDOW)

Idle ==
    /\ pc = [th \in Threads |-> "idle"]
    /\ UNCHANGED <<pc, t_ip, t_now, t_new>>

Config == UNCHANGED <<client, debug, timeout_is_exc>>

(***************************************************************************)
(* One POST /api/chat request, handled from start to end with no other     *)
(* request in between: the decorator, then the wrapped handler.            *)
(***************************************************************************)
ChatRequest(ip, req) ==
    LET k == Key(ip)
        d1 == Ensure(request_timestamps, k)
        d2 == Store(d1, k, Fresh(d1[k], now))
    IN  /\ Idle
        /\ Config
        /\ UNCHANGED now
        /\ IF LimitReached(d2[k])
           THEN /\ request_timestamps' = d2
                /\ resp' = Served(ip, now, req, FALSE, RateLimited)
                /\ rejected' = [rejected EXCEPT ![ip] = TRUE]
                /\ UNCHANGED <<admitted, last_admit>>
           ELSE /\ request_timestamps' = Store(d2, k, Append(d2[k], now))
                /\ \E gj \in get_json(req.raw) :
                      resp' = Served(ip, now, req, TRUE,
                                     handle_chat(req, gj, client, debug, timeout_is_exc))
                /\ admitted' = [admitted EXCEPT ![ip] = Append(@, now)]
                /\ last_admit' = [last_admit EXCEPT ![ip] = now]
                /\ UNCHANGED rejected

\* time passes
Tick(d) ==
    /\ Config
    /\ UNCHANGED <<pc, t_ip, t_now, t_new>>
    /\ now + d <= MaxClock
    /\ now' = now + d
    /\ admitted' = [c \in Clients |-> Recent(admitted[c], now')]
    /\ UNCHANGED <<request_timestamps, resp, last_admit, rejected>>

Start ==
    /\ now = 0
    /\ request_timestamps = [c \in {} |-> <<>>]
    /\ resp = NoRequest
    /\ admitted = [c \in Clients |-> <<>>]
    /\ last_admit = [c \in Clients |-> -1]
    /\ rejected = [c \in Clients |-> FALSE]
    /\ pc = [th \in Threads |-> "idle"]
    /\ t_ip = [th \in Threads |-> "none"]
    /\ t_now = [th \in Threads |-> 0]
    /\ t_new = [th \in Threads |-> <<>>]

\* the process after start-up, in every configuration
InitChat ==
    /\ Start
    /\ client \in BOOLEAN
    /\ debug \in BOOLEAN
    /\ timeout_is_exc \in BOOLEAN

\* the process after start-up, not in debug mode, with the openai package as released
Init ==
    /\ Start
    /\ client \in BOOLEAN
    /\ debug = FALSE
    /\ timeout_is_exc = FALSE

\* two clients, requests handled one at a time
Next ==
    \/ \E d \in TickSteps : Tick(d)
    \/ \E ip \in Clients, req \in LimiterRequests : ChatRequest(ip, req)

Spec == Init /\ [][Next]_vars

\* one client, every kind of request, handled one at a time
NextChat ==
    \/ \E d \in TickSteps : Tick(d)
    \/ \E ip \in ChatClients, req \in ChatRequests : ChatRequest(ip, req)

SpecChat == InitChat /\ [][NextChat]_vars

(***************************************************************************)
(* The same decorator when the host runs requests on several threads: a    *)
(* thread may be switched out between any two statements, and between the  *)
(* evaluation of the comprehension of line 33 and the store of its result. *)
(* Nothing in rate_limit takes a lock.                                     *)
(***************************************************************************)
ThreadRequest == Request(HelloBody, "ok", "m1")

Goto(th, label) == pc' = [pc EXCEPT ![th] = label]

\* lines 27-28
Begin(th, ip) ==
    /\ pc[th] = "idle"
    /\ Len(admitted[ip]) < MaxLog
    /\ Goto(th, "ensure")
    /\ t_ip' = [t_ip EXCEPT ![th] = ip]
    /\ t_now' = [t_now EXCEPT ![th] = now]
    /\ Config
    /\ UNCHANGED <<now, request_timestamps, resp, admitted, last_admit, rejected, t_new>>

\* lines 31-32
StepEnsure(th) ==
    /\ pc[th] = "ensure"
    /\ request_timestamps' = Ensure(request_timestamps, Key(t_ip[th]))
    /\ Goto(th, "read")
    /\ Config
    /\ UNCHANGED <<now, resp, admitted, last_admit, rejected, t_ip, t_now, t_new>>

\* line 33, right-hand side
StepRead(th) ==
    /\ pc[th] = "read"
    /\ t_new' = [t_new EXCEPT ![th] = Fresh(request_timestamps[Key(t_ip[th])], t_now[th])]
    /\ Goto(th, "write")
    /\ Config
    /\ UNCHANGED <<now, request_timestamps, resp, admitted, last_admit, rejected, t_ip, t_now>>

\* line 33, the store
StepWrite(th) ==
    /\ pc[th] = "write"
    /\ request_timestamps' = Store(request_timestamps, Key(t_ip[th]), t_new[th])
    /\ t_new' = [t_new EXCEPT ![th] = <<>>]
    /\ Goto(th, "check")
    /\ Config
    /\ UNCHANGED <<now, resp, admitted, last_admit, rejected, t_ip, t_now>>

\* lines 36-40
StepCheck(th) ==
    /\ pc[th] = "check"
    /\ IF LimitReached(request_timestamps[Key(t_ip[th])])
       THEN /\ resp' = Served(t_ip[th], t_now[th], ThreadRequest, FALSE, RateLimited)
            /\ rejected' = [rejected EXCEPT ![t_ip[th]] = TRUE]
            /\ Goto(th, "idle")
       ELSE /\ Goto(th, "append")
            /\ UNCHANGED <<resp, rejected>>
    /\ Config
    /\ UNCHANGED <<now, request_timestamps, admitted, last_admit, t_ip, t_now, t_new>>

\* lines 43-44
StepAppend(th) ==
    /\ pc[th] = "append"
    /\ request_timestamps' =
          Store(request_timestamps, Key(t_ip[th]),
                Append(request_timestamps[Key(t_ip[th])], t_now[th]))
    /\ \E gj \in get_json(ThreadRequest.raw) :
          resp' = Served(t_ip[th], t_now[th], ThreadRequest, TRUE,
                         handle_chat(ThreadRequest, gj, client, debug, timeout_is_exc))
    /\ admitted' = [admitted EXCEPT ![t_ip[th]] = Append(@, t_now[th])]
    /\ last_admit' = [last_admit EXCEPT ![t_ip[th]] = t_now[th]]
    /\ Goto(th, "idle")
    /\ Config
    /\ UNCHANGED <<now, rejected, t_ip, t_now, t_new>>

NextThreads ==
    \/ \E d \in TickSteps : Tick(d)
    \/ \E th \in Threads, ip \in ChatClients : Begin(th, ip)
    \/ \E th \in Threads : StepEnsure(th)
    \/ \E th \in Threads : StepRead(th)
    \/ \E th \in Threads : StepWrite(th)
    \/ \E th \in Threads : StepCheck(th)
    \/ \E th \in Threads : StepAppend(th)

SpecThreads == Init /\ [][NextThreads]_vars

(***************************************************************************)
(* Properties.                                                             *)
(***************************************************************************)
\* the step is the handling of a request of client c (one-at-a-time runs)
RequestBy(c) == now' = now /\ resp'.ip = c /\ vars' # vars

\* the list the dict holds for an address, empty when the address is no key
ListOf(d, c) == IF c \in DOMAIN d THEN d[c] ELSE <<>>

\* how many of the timestamps ts are less than one window before at
YoungCount(ts, at) == Len(SelectSeq(ts, LAMBDA t : at - t < RATE_LIMIT_WINDOW))

\* C1, as claimed: a request of a client that has been admitted exactly
\* RATE_LIMIT times at timestamps within the trailing window of the request's
\* time (at most RATE_LIMIT_WINDOW seconds old) is rejected with 429 and the
\* wrapped handler does not run.
C1_RejectedWithinWindow ==
    [][\A c \in Clients :
          (RequestBy(c) /\ Len(admitted[c]) = RATE_LIMIT)
              => (resp'.r.status = 429 /\ ~resp'.handler_run)]_vars

\* C1, amended: a request of a client that has been admitted exactly
\* RATE_LIMIT times at timestamps less than RATE_LIMIT_WINDOW seconds before
\* the request's time is rejected with 429 and the wrapped handler does not run.
C1_RejectedAtLimit ==
    [][\A c \in Clients :
          (RequestBy(c) /\ YoungCount(admitted[c], now) = RATE_LIMIT)
              => (resp'.r.status = 429 /\ ~resp'.handler_run /\ ~resp'.r.upstream_called)]_vars

\* C1, witness: a client with RATE_LIMIT admitted timestamps inside the window
\* has just been rejected.
C1_Witness ==
    /\ resp.ip \in Clients
    /\ resp.at = now
    /\ resp.r.status = 429
    /\ ~resp.handler_run
    /\ YoungCount(admitted[resp.ip], now) = RATE_LIMIT

\* C8: a client that was rejected before and sends a request more than
\* RATE_LIMIT_WINDOW seconds after the latest of its admitted timestamps is
\* admitted (the handler runs, no 429), whatever it sent in between.
C8_AdmittedAfterWindow ==
    [][\A c \in Clients :
          (RequestBy(c) /\ rejected[c] /\ last_admit[c] >= 0
                        /\ now - last_admit[c] > RATE_LIMIT_WINDOW)
              => (resp'.r.status # 429 /\ resp'.handler_run /\ last_admit'[c] = now)]_vars

\* C8, witness: a client rejected earlier has just been admitted, more than a
\* window after everything it had been admitted for before.
C8_Witness ==
    /\ resp.ip \in Clients
    /\ rejected[resp.ip]
    /\ resp.handler_run
    /\ resp.at = now
    /\ now > RATE_LIMIT_WINDOW
    /\ admitted[resp.ip] = <<now>>

\* C9: a request of one client leaves the timestamp list of every other client
\* as it was, and a client's request is rejected exactly when RATE_LIMIT of its
\* own admitted timestamps are less than a window old.
C9_ClientsIndependent ==
    [][/\ \A b \in Clients :
             resp'.ip # b
                 => ListOf(request_timestamps', b) = ListOf(request_timestamps, b)
       /\ \A b \in Clients :
             RequestBy(b)
                 => ((resp'.r.status = 429) <=> (YoungCount(admitted[b], now) >= RATE_LIMIT))]_vars

\* C9, witness: one client is at its limit and has been rejected, and the other
\* has just been admitted at the same time.
C9_Witness ==
    /\ resp.ip = "b"
    /\ resp.handler_run
    /\ resp.at = now
    /\ rejected["a"]
    /\ YoungCount(ListOf(request_timestamps, "a"), now) = RATE_LIMIT
    /\ Len(ListOf(request_timestamps, "b")) = 1

\* what a call of the limiter for client c leaves when it keeps the timestamps
\* for which keep holds: the kept ones, and the request's time after them
\* unless RATE_LIMIT were kept
LimiterEffect(c, keep(_)) ==
    LET kept == SelectSeq(ListOf(request_timestamps, c), keep) IN
    IF Len(kept) >= RATE_LIMIT
    THEN /\ request_timestamps'[c] = kept
         /\ resp'.r.status = 429
         /\ ~resp'.handler_run
    ELSE /\ request_timestamps'[c] = Append(kept, now)
         /\ resp'.r.status # 429
         /\ resp'.handler_run

\* C10, as claimed: a call discards the timestamps with now - t > RATE_LIMIT_WINDOW
\* and keeps all others, one exactly RATE_LIMIT_WINDOW old included; it rejects
\* without appending when RATE_LIMIT remain, and appends now and admits otherwise.
C10_KeepsBoundary ==
    [][\A c \in Clients :
          RequestBy(c) => LimiterEffect(c, LAMBDA t : ~(now - t > RATE_LIMIT_WINDOW))]_vars

\* C10, amended: a call discards the timestamps with now - t >= RATE_LIMIT_WINDOW
\* (one exactly RATE_LIMIT_WINDOW old included) and keeps those with
\* now - t < RATE_LIMIT_WINDOW; it rejects without appending when RATE_LIMIT
\* remain, and appends now and admits otherwise.
C10_LimiterStep ==
    [][\A c \in Clients :
          RequestBy(c) => LimiterEffect(c, LAMBDA t : now - t < RATE_LIMIT_WINDOW)]_vars

\* C10, witness: a request arrived exactly one window after the client's
\* earlier admitted timestamps, which were discarded, and was admitted.
C10_Witness ==
    /\ resp.ip \in Clients
    /\ resp.at = now
    /\ resp.handler_run
    /\ now = RATE_LIMIT_WINDOW
    /\ Len(admitted[resp.ip]) >= 2
    /\ admitted[resp.ip][1] = 0
    /\ request_timestamps[resp.ip] = <<now>>

\* the latest request was admitted by the limiter and handled with the
\* upstream client present
HandledWithClient == resp.ip \in Clients /\ resp.handler_run /\ client

\* the message member of a parsed body as the interface describes it: the
\* value under "message" of an object, absent in anything else
MessageOf(v) == IF v.t = "dict" /\ "message" \in v.keys THEN v.message ELSE PyNone

\* a message that is absent, no string, or empty once trimmed
NoUsableMessage(v) == MessageOf(v).t # "str" \/ Strip(MessageOf(v).s) = <<>>

ValidMessage == resp.req.raw.kind = "json" /\ ~NoUsableMessage(resp.req.raw.value)

\* C2: for an admitted request with a valid message and a present client, an
\* upstream authentication failure yields 401, a connection failure 503 and
\* a timeout 504.
C2_UpstreamStatus ==
    (HandledWithClient /\ ValidMessage)
        => /\ resp.req.upstream = "auth" => resp.r.status = 401
           /\ resp.req.upstream = "conn" => resp.r.status = 503
           /\ resp.req.upstream = "timeout" => resp.r.status = 504

\* C3: a malformed or missing JSON body returns 400, never 500.
C3_BadBodyIs400 ==
    (HandledWithClient /\ resp.req.raw.kind \in {"malformed", "missing"})
        => resp.r.status = 400

\* C4, as claimed: every request made while the client handle is absent
\* returns 500 service-not-ready, and no upstream call is attempted.
C4_AlwaysNotReady ==
    (resp.ip \in Clients /\ ~client)
        => (resp.r.status = 500 /\ resp.r.error = "service-not-ready" /\ ~resp.r.upstream_called)

\* C4, amended: every request made while the client handle is absent that the
\* rate limiter admits returns 500 service-not-ready; a request the rate
\* limiter rejects returns 429; no upstream call is attempted in either case.
C4_NotReadyUnlessLimited ==
    (resp.ip \in Clients /\ ~client)
        => /\ ~resp.r.upstream_called
           /\ resp.handler_run => (resp.r.status = 500 /\ resp.r.error = "service-not-ready")
           /\ ~resp.handler_run => resp.r.status = 429

\* C4, witness: with the client handle absent, a valid message that would
\* otherwise go upstream got the service-not-ready answer from a client that
\* had been rejected by the limiter before.
C4_Witness ==
    /\ ~client
    /\ resp.ip \in Clients
    /\ resp.handler_run
    /\ resp.req.raw = HelloBody
    /\ resp.r.error = "service-not-ready"
    /\ rejected[resp.ip]

\* C5: a parsed JSON body of any type whose message is absent, no string or
\* empty after trimming gets 400 from an admitted request with a present
\* client, and the upstream call is not made.
C5_InvalidMessageIs400 ==
    (HandledWithClient /\ resp.req.raw.kind = "json" /\ NoUsableMessage(resp.req.raw.value))
        => (resp.r.status = 400 /\ ~resp.r.upstream_called)

Occurrences(ts, t) == Cardinality({i \in DOMAIN ts : ts[i] = t})

\* C6: with requests running in parallel, no admitted timestamp still inside
\* the window is missing from the client's list, and no client has more than
\* RATE_LIMIT admitted timestamps inside the trailing window.
C6_MapProtected ==
    \A c \in Clients :
        /\ \A i \in DOMAIN admitted[c] :
              now - admitted[c][i] < RATE_LIMIT_WINDOW
                  => Occurrences(ListOf(request_timestamps, c), admitted[c][i])
                         >= Occurrences(admitted[c], admitted[c][i])
        /\ YoungCount(admitted[c], now) <= RATE_LIMIT

\* C6, the second half alone
C6_WindowBounded == \A c \in Clients : YoungCount(admitted[c], now) <= RATE_LIMIT

====
